---- MODULE Spec2Model ----
(***************************************************************************)
(* Model of the SiliconToaster host driver                                 *)
(* (src/silicontoaster/silicontoaster.py).                                 *)
(*                                                                         *)
(* Every driver method is one atomic action.  A method is written as a     *)
(* chain of steps over a call record m (the Python frame): ser_write,      *)
(* ser_read, py_assert, ... each step is skipped once an exception is      *)
(* pending in m.exc, which is how a raise unwinds the method.              *)
(*                                                                         *)
(* Four specifications:                                                    *)
(*   Spec        one caller, the port as an arbitrary environment (below); *)
(*   ConvertSpec the static method convert on its own;                     *)
(*   DeviceSpec  one caller, a device that answers as the protocol table   *)
(*               says behind the port;                                     *)
(*   ThreadSpec  two threads on one session with that device, each         *)
(*               statement of a method being one step.                     *)
(*                                                                         *)
(* In Spec the serial port is the environment.  For every call the action  *)
(* draws                                                                   *)
(*   - wfail    : whether ser.write raises (transport failure);            *)
(*   - src      : for each successive ser.read, the bytes the port has for *)
(*                it (read(n) returns at most n of them);                  *)
(*   - blocking : whether a read that lacks bytes waits for ever (the port *)
(*                is opened without a timeout) or returns what it has (a   *)
(*                timeout is set on the port, or a test double is used).   *)
(***************************************************************************)
EXTENDS Integers, Sequences, FiniteSets, TLC

VARIABLES
    phase,    \* lifecycle of the session object
    ser,      \* the transport owned by the session: [port, is_open]
    attrs,    \* the other attributes of the session, set by __init__
    op,       \* the last method invoked: [name, args]
    result,   \* how it ended: [kind, value]
    io,       \* the transport calls it made, in order
    listed,   \* what comports() listed for the call, when it asked
    rx,       \* bytes the device sent that no read has taken yet
    device,   \* the device at the other end of the port, when one is modelled
    last_set, \* history: the arguments of the last accepted set_pwm_settings
    threads,  \* the calls in progress when the session is shared by threads
    lock      \* the callers' mutex: who holds it

\* The session object and the call made on it
session == <<phase, ser, attrs>>
\* The device end of the wire, with the history kept about it
wire == <<rx, device, last_set>>
\* Callers that share the session
sharing == <<threads, lock>>

vars == <<phase, ser, attrs, op, result, io, listed, rx, device, last_set, threads, lock>>

---------------------------------------------------------------------------
(* Bounds of the model *)

\* Bytes the port delivers in multi-byte reads are 0..MaxByte.
MaxByte == 2
\* At most the last MaxSig bytes of a delivered chunk are non-zero.
MaxSig == 2

---------------------------------------------------------------------------
(* Bytes *)

Min(a, b) == IF a < b THEN a ELSE b

Zeros(n) == [i \in 1..n |-> 0]

\* int.from_bytes(bs, "big", signed=False); b"" gives 0
RECURSIVE from_bytes(_)
from_bytes(bs) ==
    IF bs = <<>> THEN 0
    ELSE from_bytes(SubSeq(bs, 1, Len(bs) - 1)) * 256 + bs[Len(bs)]

\* The n big-endian bytes of v, for 0 <= v < 256^n
RECURSIVE be_bytes(_, _)
be_bytes(v, n) ==
    IF n = 0 THEN <<>>
    ELSE Append(be_bytes(v \div 256, n - 1), v % 256)

\* Whether v is representable in 2 unsigned bytes (what int.to_bytes(2, "big",
\* signed=False) and struct.pack(">H", v) require)
fits_u16(v) == v >= 0 /\ v < 65536

Opcodes == {1, 2, 3, 4, 5, 6, 7, 8, 10, 11, 12, 13, 170, 171, 172, 238, 119}

---------------------------------------------------------------------------
(* The environment: what the port hands to a read *)

SampleBytes == 0..MaxByte
WideBytes == SampleBytes \cup Opcodes

ChunksOfLen(k) ==
    IF k = 0 THEN {<<>>}
    ELSE IF k = 1 THEN {<<b>> : b \in WideBytes}
    ELSE LET j == Min(k, MaxSig)
         IN {Zeros(k - j) \o t : t \in [1..j -> SampleBytes]}

\* The byte strings the port may have for a read of n bytes
Chunks(n) == UNION {ChunksOfLen(k) : k \in 0..n}

---------------------------------------------------------------------------
(* The call record and the steps of a method *)

NoValue == <<>>

(* A device at the other end of the port, as section 4.2 of the            *)
(* specification describes it: it answers every frame with the echo of its *)
(* opcode followed by the response payload of that opcode.  It keeps the 4  *)
(* payload bytes of the last frame of opcode 3 and answers opcode 8 with    *)
(* them; the payload of every other answer is the environment's choice.     *)
NoDevice == [attached |-> FALSE, pwm |-> <<>>]

NewDevice == [attached |-> TRUE, pwm |-> Zeros(4)]

device_answer(d, frame, payload) ==
    <<frame[1]>> \o (IF frame[1] = 8 THEN d.pwm ELSE payload)

device_after(d, frame) ==
    IF frame[1] = 3 /\ Len(frame) = 5 THEN [d EXCEPT !.pwm = SubSeq(frame, 2, 5)]
    ELSE d

\* A call on a port whose reads the environment serves (src, one chunk per
\* read)
Call(src, wfail, blocking) ==
    [exc |-> "none", io |-> <<>>, got |-> <<>>, ret |-> NoValue,
     src |-> src, wfail |-> wfail, blocking |-> blocking,
     dev |-> NoDevice, rx |-> <<>>, payload |-> <<>>]

\* A call on a port with the device d behind it: unread holds the bytes no
\* read has taken yet, payload is what the device will answer the frame with
DeviceCall(d, unread, payload) ==
    [exc |-> "none", io |-> <<>>, got |-> <<>>, ret |-> NoValue,
     src |-> <<>>, wfail |-> FALSE, blocking |-> TRUE,
     dev |-> d, rx |-> unread, payload |-> payload]

Raise(m, e) == IF m.exc /= "none" THEN m ELSE [m EXCEPT !.exc = e]

Return(m, v) == IF m.exc /= "none" THEN m ELSE [m EXCEPT !.ret = v]

\* self.ser.write(frame)
ser_write(m, frame) ==
    IF m.exc /= "none" THEN m
    ELSE IF m.wfail
    THEN [m EXCEPT !.io = Append(@, [t |-> "write_failed", n |-> Len(frame), data |-> frame]),
                   !.exc = "SerialException"]
    ELSE IF m.dev.attached
    THEN [m EXCEPT !.io = Append(@, [t |-> "write", n |-> Len(frame), data |-> frame]),
                   !.rx = @ \o device_answer(m.dev, frame, m.payload),
                   !.dev = device_after(@, frame)]
    ELSE [m EXCEPT !.io = Append(@, [t |-> "write", n |-> Len(frame), data |-> frame])]

\* self.ser.read(n): the bytes go to m.got
ser_read(m, n) ==
    IF m.exc /= "none" THEN m
    ELSE LET avail == IF m.dev.attached THEN m.rx
                      ELSE IF m.src = <<>> THEN <<>> ELSE Head(m.src)
             k == Min(n, Len(avail))
             rest == IF m.src = <<>> THEN <<>> ELSE Tail(m.src)
         IN IF k < n /\ m.blocking
            THEN [m EXCEPT !.io = Append(@, [t |-> "read_blocked", n |-> n, data |-> <<>>]),
                           !.exc = "hang"]
            ELSE [m EXCEPT !.io = Append(@, [t |-> "read", n |-> n, data |-> SubSeq(avail, 1, k)]),
                           !.got = SubSeq(avail, 1, k),
                           !.src = rest,
                           !.rx = IF m.dev.attached THEN SubSeq(avail, k + 1, Len(avail))
                                  ELSE @]

\* assert self.ser.read(1) == expected: a bare assert, AssertionError()
\* carries no message
py_assert_read(m, n, expected) ==
    LET m1 == ser_read(m, n)
    IN IF m1.exc /= "none" THEN m1
       ELSE IF m1.got = expected THEN m1
       ELSE [m1 EXCEPT !.exc = "AssertionError"]

---------------------------------------------------------------------------
(* Calibration: decimal fixed point                                        *)
(*                                                                         *)
(* A float is modelled as an exact decimal with 20 fraction digits:        *)
(* [neg, mag] where mag is the magnitude in units of 10^-20, as limbs of   *)
(* 4 decimal digits, least significant first.  Dec(neg, g) writes one      *)
(* most significant first: <<integer part, 5 groups of 4 fraction digits>>.*)
(* The inputs of the conversions are integers (a voltage in whole volts, a *)
(* raw ADC count).                                                         *)

\* A limb holds 4 decimal digits; 5 limbs hold the 20 fraction digits
Base == 10000
FracLimbs == 5

Reverse(s) == [i \in 1..Len(s) |-> s[Len(s) + 1 - i]]

RECURSIVE strip(_)
strip(a) ==
    IF a = <<>> THEN a
    ELSE IF a[Len(a)] = 0 THEN strip(SubSeq(a, 1, Len(a) - 1))
    ELSE a

Num(neg, mag) ==
    LET s == strip(mag)
    IN [neg |-> neg /\ s /= <<>>, mag |-> s]

Dec(neg, groups) == Num(neg, Reverse(groups))

ZeroNum == Num(FALSE, <<>>)

limb(a, i) == IF i <= Len(a) THEN a[i] ELSE 0

Max(a, b) == IF a > b THEN a ELSE b

\* a * k + carry, for a magnitude a and 0 <= k
RECURSIVE mul_small(_, _, _)
mul_small(a, k, carry) ==
    IF a = <<>>
    THEN IF carry = 0 THEN <<>>
         ELSE <<carry % Base>> \o mul_small(<<>>, k, carry \div Base)
    ELSE LET t == Head(a) * k + carry
         IN <<t % Base>> \o mul_small(Tail(a), k, t \div Base)

RECURSIVE add_mag(_, _, _)
add_mag(a, b, carry) ==
    IF a = <<>> /\ b = <<>>
    THEN IF carry = 0 THEN <<>> ELSE <<carry>>
    ELSE LET t == limb(a, 1) + limb(b, 1) + carry
             ta == IF a = <<>> THEN a ELSE Tail(a)
             tb == IF b = <<>> THEN b ELSE Tail(b)
         IN <<t % Base>> \o add_mag(ta, tb, t \div Base)

\* a >= b, comparing from limb i down
RECURSIVE ge_from(_, _, _)
ge_from(a, b, i) ==
    IF i = 0 THEN TRUE
    ELSE IF limb(a, i) > limb(b, i) THEN TRUE
    ELSE IF limb(a, i) < limb(b, i) THEN FALSE
    ELSE ge_from(a, b, i - 1)

ge_mag(a, b) == ge_from(a, b, Max(Len(a), Len(b)))

\* a - b - borrow, for a >= b
RECURSIVE sub_mag(_, _, _)
sub_mag(a, b, borrow) ==
    IF a = <<>> THEN <<>>
    ELSE LET t == Head(a) - limb(b, 1) - borrow
             tb == IF b = <<>> THEN b ELSE Tail(b)
         IN IF t < 0 THEN <<t + Base>> \o sub_mag(Tail(a), tb, 1)
            ELSE <<t>> \o sub_mag(Tail(a), tb, 0)

num_add(x, y) ==
    IF x.neg = y.neg THEN Num(x.neg, add_mag(x.mag, y.mag, 0))
    ELSE IF ge_mag(x.mag, y.mag) THEN Num(x.neg, sub_mag(x.mag, y.mag, 0))
    ELSE Num(y.neg, sub_mag(y.mag, x.mag, 0))

\* x * k for an integer k
num_mul_int(x, k) ==
    IF k >= 0 THEN Num(x.neg, mul_small(x.mag, k, 0))
    ELSE Num(~x.neg, mul_small(x.mag, 0 - k, 0))

\* c * value ** e
RECURSIVE times_pow(_, _, _)
times_pow(c, value, e) ==
    IF e = 0 THEN c ELSE times_pow(num_mul_int(c, value), value, e - 1)

\* Mutant: the exponent of coefficient i is i - 1 (lowest degree first)
RECURSIVE convert_from_ascending(_, _, _, _)
convert_from_ascending(v, value, calibration, i) ==
    IF i > Len(calibration) THEN v
    ELSE convert_from_ascending(
            num_add(v, times_pow(calibration[i], value, i - 1)),
            value, calibration, i + 1)

\* The loop of convert from coefficient i on, v being the running sum
RECURSIVE convert_from(_, _, _, _)
convert_from(v, value, calibration, i) ==
    IF i > Len(calibration) THEN v
    ELSE convert_from(
            num_add(v, times_pow(calibration[i], value, Len(calibration) - i)),
            value, calibration, i + 1)

convert(value, calibration) == convert_from(ZeroNum, value, calibration, 1)

\* The limbs of an integer k >= 0
RECURSIVE int_limbs(_)
int_limbs(k) == IF k = 0 THEN <<>> ELSE <<k % Base>> \o int_limbs(k \div Base)

\* float(k) for an integer k
float_of(k) ==
    IF k >= 0 THEN Num(FALSE, Zeros(FracLimbs) \o int_limbs(k))
    ELSE Num(TRUE, Zeros(FracLimbs) \o int_limbs(0 - k))

\* The integer a magnitude of whole limbs stands for
RECURSIVE mag_int(_)
mag_int(a) == IF a = <<>> THEN 0 ELSE Head(a) + Base * mag_int(Tail(a))

\* int(round(x)): round half to even
int_round(x) ==
    LET frac == SubSeq(x.mag, 1, Min(FracLimbs, Len(x.mag)))
        whole == mag_int(SubSeq(x.mag, FracLimbs + 1, Len(x.mag)))
        half == Zeros(FracLimbs - 1) \o <<Base \div 2>>
        up == IF strip(frac) = strip(half) THEN whole % 2 = 1
              ELSE ge_mag(frac, half)
        m == IF up THEN whole + 1 ELSE whole
    IN IF x.neg THEN 0 - m ELSE m

calibration_raw_to_v ==
    << Dec(TRUE,  <<0, 0, 0, 40, 2294, 3980>>),     \* -4.02294398e-11
       Dec(FALSE, <<0, 0, 15, 3492, 3780, 0>>),     \*  1.53492378e-07
       Dec(TRUE,  <<0, 2, 7116, 6328, 0, 0>>),      \* -2.71166328e-04
       Dec(FALSE, <<0, 7669, 2714, 6000, 0, 0>>),   \*  7.66927146e-01
       Dec(TRUE,  <<1, 1272, 9564, 0, 0, 0>>) >>    \* -1.12729564e00

calibration_v_to_raw ==
    << Dec(FALSE, <<0, 0, 0, 559, 9725, 6000>>),   \*  5.59972560e-10
       Dec(TRUE,  <<0, 0, 102, 4083, 100, 0>>),     \* -1.02408301e-06
       Dec(FALSE, <<0, 10, 6453, 1790, 0, 0>>),     \*  1.06453179e-03
       Dec(FALSE, <<1, 2445, 7162, 0, 0, 0>>),      \*  1.24457162e00
       Dec(FALSE, <<2, 5737, 9247, 0, 0, 0>>) >>    \*  2.57379247e00

\* The attributes lines 34-48 of __init__ set
NoAttrs ==
    [calibration_raw_to_v |-> <<>>, calibration_v_to_raw |-> <<>>,
     software_limit |-> "unset"]

InitAttrs ==
    [calibration_raw_to_v |-> calibration_raw_to_v,
     calibration_v_to_raw |-> calibration_v_to_raw,
     software_limit |-> "None"]

to_raw(value) == int_round(convert(value, attrs.calibration_v_to_raw))

to_volt(value) == convert(value, attrs.calibration_raw_to_v)

---------------------------------------------------------------------------
(* The methods of SiliconToaster *)

read_voltage_raw(m) ==
    LET m1 == ser_write(m, <<2>>)
        m2 == py_assert_read(m1, 1, <<2>>)
        m3 == ser_read(m2, 2)
    IN Return(m3, <<from_bytes(m3.got)>>)

on_off(m, enable) ==
    LET command == <<1>> \o (IF enable THEN <<1>> ELSE <<0>>)
        m1 == ser_write(m, command)
    IN py_assert_read(m1, 1, <<1>>)

\* Mutant: the last check compares with > instead of >=
set_pwm_settings_width_gt(m, period, width) ==
    IF period < 1 THEN Raise(m, "ValueError")
    ELSE IF width < 0 THEN Raise(m, "ValueError")
    ELSE IF width > period THEN Raise(m, "ValueError")
    ELSE IF ~fits_u16(period) THEN Raise(m, "OverflowError")
    ELSE IF ~fits_u16(width) THEN Raise(m, "OverflowError")
    ELSE LET command == <<3>> \o be_bytes(period, 2) \o be_bytes(width, 2)
             m1 == ser_write(m, command)
         IN py_assert_read(m1, 1, <<3>>)

\* Mutant: the two fields are encoded with "little" instead of "big"
set_pwm_settings_little(m, period, width) ==
    IF period < 1 THEN Raise(m, "ValueError")
    ELSE IF width < 0 THEN Raise(m, "ValueError")
    ELSE IF width >= period THEN Raise(m, "ValueError")
    ELSE IF ~fits_u16(period) THEN Raise(m, "OverflowError")
    ELSE IF ~fits_u16(width) THEN Raise(m, "OverflowError")
    ELSE LET command == <<3>> \o Reverse(be_bytes(period, 2)) \o Reverse(be_bytes(width, 2))
             m1 == ser_write(m, command)
         IN py_assert_read(m1, 1, <<3>>)

set_pwm_settings(m, period, width) ==
    IF period < 1 THEN Raise(m, "ValueError")
    ELSE IF width < 0 THEN Raise(m, "ValueError")
    ELSE IF width >= period THEN Raise(m, "ValueError")
    ELSE IF ~fits_u16(period) THEN Raise(m, "OverflowError")
    ELSE IF ~fits_u16(width) THEN Raise(m, "OverflowError")
    ELSE LET command == <<3>> \o be_bytes(period, 2) \o be_bytes(width, 2)
             m1 == ser_write(m, command)
         IN py_assert_read(m1, 1, <<3>>)

\* Mutant: the range check admits 0x10000
software_shoot_range_wide(m, duration) ==
    IF duration \notin 0..65536 THEN Raise(m, "ValueError")
    ELSE IF ~fits_u16(duration) THEN Raise(m, "OverflowError")
    ELSE LET command == <<4>> \o be_bytes(duration, 2)
             m1 == ser_write(m, command)
         IN py_assert_read(m1, 1, <<4>>)

software_shoot(m, duration) ==
    IF duration \notin 0..(65536 - 1) THEN Raise(m, "ValueError")
    ELSE LET command == <<4>> \o be_bytes(duration, 2)
             m1 == ser_write(m, command)
         IN py_assert_read(m1, 1, <<4>>)

get_ticks(m) ==
    LET m1 == ser_write(m, <<5>>)
        m2 == py_assert_read(m1, 1, <<5>>)
        m3 == ser_read(m2, 8)
    IN Return(m3, <<from_bytes(m3.got)>>)

\* Mutant: the two fields are read in the other order
get_pwm_settings_width_first(m) ==
    LET m1 == ser_write(m, <<8>>)
        m2 == py_assert_read(m1, 1, <<8>>)
        m3 == ser_read(m2, 2)
        width == from_bytes(m3.got)
        m4 == ser_read(m3, 2)
        period == from_bytes(m4.got)
    IN Return(m4, <<period, width>>)

get_pwm_settings(m) ==
    LET m1 == ser_write(m, <<8>>)
        m2 == py_assert_read(m1, 1, <<8>>)
        m3 == ser_read(m2, 2)
        period == from_bytes(m3.got)
        m4 == ser_read(m3, 2)
        width == from_bytes(m4.got)
    IN Return(m4, <<period, width>>)

\* Mutant: the acknowledgment is read but not compared
set_adc_control_on_off_unchecked(m, enable) ==
    LET command == <<170>> \o (IF enable THEN <<1>> ELSE <<0>>)
        m1 == ser_write(m, command)
    IN ser_read(m1, 1)

set_adc_control_on_off(m, enable) ==
    LET command == <<170>> \o (IF enable THEN <<1>> ELSE <<0>>)
        m1 == ser_write(m, command)
    IN py_assert_read(m1, 1, <<170>>)

adc_control_on_off(m) ==
    LET m1 == ser_write(m, <<171>>)
        m2 == py_assert_read(m1, 1, <<171>>)
        m3 == ser_read(m2, 1)
    IN Return(m3, <<m3.got = <<1>>>>)

panic(m) ==
    LET m1 == ser_write(m, <<119>>)
    IN py_assert_read(m1, 1, <<119>>)

\* Mutant: the counter is read as 1 byte
get_last_error_one_byte(m) ==
    LET m1 == ser_write(m, <<238>>)
        m2 == py_assert_read(m1, 1, <<238>>)
        m3 == ser_read(m2, 1)
    IN Return(m3, <<from_bytes(m3.got)>>)

get_last_error(m) ==
    LET m1 == ser_write(m, <<238>>)
        m2 == py_assert_read(m1, 1, <<238>>)
        m3 == ser_read(m2, 2)
    IN Return(m3, <<from_bytes(m3.got)>>)

\* Mutant: a failed measurement is tried a second time
read_voltage_retry(m) ==
    LET m1 == read_voltage_raw(m)
        m2 == IF m1.exc \in {"none", "hang"} THEN m1
              ELSE read_voltage_raw([m1 EXCEPT !.exc = "none"])
    IN IF m2.exc /= "none" THEN m2
       ELSE Return(m2, <<to_volt(m2.ret[1])>>)

read_voltage(m) ==
    LET m1 == read_voltage_raw(m)
    IN IF m1.exc /= "none" THEN m1
       ELSE Return(m1, <<to_volt(m1.ret[1])>>)

\* struct.unpack(">H", data)[0]
unpack_H(m, data) ==
    IF m.exc /= "none" THEN m
    ELSE IF Len(data) /= 2 THEN Raise(m, "struct.error(unpack)")
    ELSE Return(m, <<from_bytes(data)>>)

get_voltage_setpoint(m) ==
    LET m1 == ser_write(m, <<6>>)
        m2 == py_assert_read(m1, 1, <<6>>)
        m3 == ser_read(m2, 2)
        m4 == unpack_H(m3, m3.got)
    IN IF m4.exc /= "none" THEN m4
       ELSE Return(m4, <<to_volt(m4.ret[1])>>)

set_voltage_setpoint(m, destination) ==
    LET raw == to_raw(destination)
    IN IF ~fits_u16(raw) THEN Raise(m, "struct.error(pack)")
       ELSE LET command == <<7>> \o be_bytes(raw, 2)
                m1 == ser_write(m, command)
            IN py_assert_read(m1, 1, <<7>>)

(* struct formats.  A float argument is a record [bits, fits]: the IEEE-754 *)
(* binary32 pattern struct.pack(">f") produces for it, or fits = FALSE for  *)
(* a float beyond the binary32 range (OverflowError).  An integer argument  *)
(* of a "Q" field is [neg, bytes]: sign and big-endian magnitude, which can *)
(* exceed 64 bits.  A decoded float is carried as its bit pattern.          *)

pack_bool(b) == IF b THEN <<1>> ELSE <<0>>

\* The first error struct.pack raises over its float arguments, then Q
pack_error(floats, ticks) ==
    IF \E i \in 1..Len(floats) : ~floats[i].fits THEN "OverflowError"
    ELSE IF \E i \in 1..Len(ticks) : ticks[i].neg \/ Len(ticks[i].bytes) > 8
    THEN "struct.error(pack)"
    ELSE "none"

RECURSIVE pack_floats(_)
pack_floats(floats) ==
    IF floats = <<>> THEN <<>>
    ELSE be_bytes(Head(floats).bits, 4) \o pack_floats(Tail(floats))

pack_Q(t) == Zeros(8 - Len(t.bytes)) \o t.bytes

\* struct.unpack of nf binary32 fields followed by one uint64
unpack_fQ(m, nf, data) ==
    IF m.exc /= "none" THEN m
    ELSE IF Len(data) /= nf * 4 + 8 THEN Raise(m, "struct.error(unpack)")
    ELSE Return(m, [i \in 1..(nf + 1) |->
                       IF i <= nf THEN from_bytes(SubSeq(data, 4 * i - 3, 4 * i))
                       ELSE from_bytes(SubSeq(data, 4 * nf + 1, 4 * nf + 8))])

get_adc_control_pid(m, from_flash) ==
    LET command == <<10>> \o pack_bool(from_flash)
        m1 == ser_write(m, command)
        m2 == py_assert_read(m1, 1, <<10>>)
        m3 == ser_read(m2, 3 * 4 + 8)
    IN unpack_fQ(m3, 3, m3.got)

\* Mutant: the opcode and the flag are written before the rest is packed
set_adc_control_pid_opcode_first(m, kp, ki, kd, control_ticks, to_flash) ==
    LET m1 == ser_write(m, <<11>> \o pack_bool(to_flash))
        e == pack_error(<<kp, ki, kd>>, <<control_ticks>>)
    IN IF e /= "none" THEN Raise(m1, e)
       ELSE LET m2 == ser_write(m1, pack_floats(<<kp, ki, kd>>) \o pack_Q(control_ticks))
            IN py_assert_read(m2, 1, <<11>>)

set_adc_control_pid(m, kp, ki, kd, control_ticks, to_flash) ==
    LET e == pack_error(<<kp, ki, kd>>, <<control_ticks>>)
    IN IF e /= "none" THEN Raise(m, e)
       ELSE LET command == <<11>> \o pack_bool(to_flash)
                               \o pack_floats(<<kp, ki, kd>>) \o pack_Q(control_ticks)
                m1 == ser_write(m, command)
            IN py_assert_read(m1, 1, <<11>>)

get_adc_control_pid_ex(m) ==
    LET m1 == ser_write(m, <<13>>)
        m2 == py_assert_read(m1, 1, <<13>>)
        m3 == ser_read(m2, 5 * 4 + 8)
    IN unpack_fQ(m3, 5, m3.got)

set_adc_control_pid_ex(m, p_limit, i_limit, d_limit, output_limit) ==
    LET e == pack_error(<<p_limit, i_limit, d_limit, output_limit>>, <<>>)
    IN IF e /= "none" THEN Raise(m, e)
       ELSE LET command == <<12>> \o pack_floats(<<p_limit, i_limit, d_limit, output_limit>>)
                m1 == ser_write(m, command)
            IN py_assert_read(m1, 1, <<12>>)

\* struct.unpack(">I", data)[0]
unpack_I(m, data) ==
    IF m.exc /= "none" THEN m
    ELSE IF Len(data) /= 4 THEN Raise(m, "struct.error(unpack)")
    ELSE Return(m, <<from_bytes(data)>>)

\* struct.unpack(f">{v}H", data)
unpack_vH(m, v, data) ==
    IF m.exc /= "none" THEN m
    ELSE IF Len(data) /= 2 * v THEN Raise(m, "struct.error(unpack)")
    ELSE Return(m, [i \in 1..v |-> from_bytes(SubSeq(data, 2 * i - 1, 2 * i))])

adc_results(m) ==
    LET m1 == ser_write(m, <<172>>)
        m2 == py_assert_read(m1, 1, <<172>>)
        m3 == ser_read(m2, 4)
        m4 == unpack_I(m3, m3.got)
        v == IF m4.exc = "none" THEN m4.ret[1] ELSE 0
        m5 == ser_read(m4, v * 2)
    IN unpack_vH(m5, v, m5.got)

---------------------------------------------------------------------------
(* Inputs of the model *)

\* Values 0..MaxArg are tried for every 16-bit integer argument, besides the
\* edges of the ranges.
MaxArg == 2

PwmValues == {0 - 1, 9, 10, 11, 258, 65534, 65535, 65536} \cup 0..MaxArg
Durations == {0 - 1, 258, 65535, 65536} \cup 0..MaxArg
Voltages == {0 - 3, 0 - 1, 500, 1000, 1001, 1500, 4000} \cup 0..MaxArg

\* 0.0, 1.0 and 1e39 (beyond binary32)
SampleFloats ==
    {[bits |-> 0, fits |-> TRUE], [bits |-> 1065353216, fits |-> TRUE],
     [bits |-> 0, fits |-> FALSE]}

\* 0, 1, -1, 2^64 - 1 and 2^64
SampleTicks ==
    {[neg |-> FALSE, bytes |-> <<>>], [neg |-> FALSE, bytes |-> <<1>>],
     [neg |-> TRUE, bytes |-> <<1>>],
     [neg |-> FALSE, bytes |-> [i \in 1..8 |-> 255]],
     [neg |-> FALSE, bytes |-> <<1>> \o Zeros(8)]}

Devs == {"None", "/dev/ttyUSB0"}
Sns == {"None", "SN1", "SN2"}

\* What serial.tools.list_ports.comports() may list
PortUniverse ==
    {[device |-> "/dev/ttyACM0", product |-> "SiliconToaster", serial_number |-> "SN1"],
     [device |-> "/dev/ttyACM1", product |-> "SiliconToaster", serial_number |-> "SN2"],
     [device |-> "/dev/ttyACM2", product |-> "Arduino", serial_number |-> "SN1"],
     [device |-> "/dev/ttyS0", product |-> "None", serial_number |-> "None"]}

\* The environments of one call: the write fails, or it succeeds and the
\* reads are served from a chunk sequence of S
Calls(S) ==
    {Call(<<>>, TRUE, FALSE)} \cup {Call(src, FALSE, bl) : src \in S, bl \in BOOLEAN}

\* Chunk sequences for a method that reads a 1-byte acknowledgment and goes
\* on only when it equals ack: a wrong or missing acknowledgment, or the
\* right one followed by a sequence of rest
Src(ack, rest) ==
    {<<a>> : a \in Chunks(1) \ {<<ack>>}} \cup {<<<<ack>>>> \o r : r \in rest}

NoMore == {<<>>}
One(n) == {<<b>> : b \in Chunks(n)}
Two(n, k) == {<<b, c>> : b \in Chunks(n), c \in Chunks(k)}

\* The largest sample count whose samples the port delivers in full to
\* adc_results
MaxAdcCount == 2

\* Counts the device may send beyond what it ever delivers samples for
LargeCounts == {be_bytes(10000, 4), be_bytes(10001, 4)}

\* For adc_results: a short count, or a full count and some sample bytes
AdcChunks ==
    {<<b>> : b \in Chunks(3)}
        \cup {<<b, c>> : b \in ChunksOfLen(4) \cup LargeCounts,
                         c \in Chunks(2 * MaxAdcCount)}

---------------------------------------------------------------------------
(* Lifecycle *)

NoSer == [port |-> "None", is_open |-> FALSE]

NoOp == [name |-> "", args |-> <<>>]
NoResult == [kind |-> "none", value |-> NoValue]

NoPorts == {}
NoThreads == <<>>
NoLock == "free"

Init ==
    /\ phase = "none"
    /\ ser = NoSer
    /\ attrs = NoAttrs
    /\ op = NoOp
    /\ result = NoResult
    /\ io = <<>>
    /\ listed = NoPorts
    /\ rx = <<>>
    /\ device = NoDevice
    /\ last_set = <<>>
    /\ threads = NoThreads
    /\ lock = NoLock

\* op, result and io describe one call: the one in progress or just ended.
\* The caller is Idle once it has taken the outcome of its last call.
Idle == op = NoOp

\* A method can be called: the session is constructed and the caller holds it
Live == phase = "live" /\ Idle

Outcome(m) == [kind |-> IF m.exc = "none" THEN "ok" ELSE m.exc, value |-> m.ret]

\* Mutant: to_raw reverses self.calibration_v_to_raw in place, to add up
\* from the constant term, and leaves it reversed
Finish_reversing(name, args, m) ==
    /\ op' = [name |-> name, args |-> args]
    /\ result' = Outcome(m)
    /\ io' = m.io
    /\ phase' = IF m.exc = "hang" THEN "hung" ELSE phase
    /\ attrs' = IF name = "set_voltage_setpoint"
                THEN [attrs EXCEPT !.calibration_v_to_raw = Reverse(@)]
                ELSE attrs
    /\ UNCHANGED <<ser, listed, wire, sharing>>

\* A method called on the live session returns, raises, or never returns.
\* No method assigns an attribute of the session.
Finish(name, args, m) ==
    /\ op' = [name |-> name, args |-> args]
    /\ result' = Outcome(m)
    /\ io' = m.io
    /\ phase' = IF m.exc = "hang" THEN "hung" ELSE phase
    /\ UNCHANGED <<ser, attrs, listed, wire, sharing>>

\* Mutant: with several matching ports the first one found is used
find_device_first(dev, sn, comports) ==
    IF dev /= "None" /\ sn /= "None" THEN [exc |-> "ValueError", dev |-> dev]
    ELSE IF dev = "None"
    THEN LET possible_ports ==
                 {port \in comports :
                     /\ port.product /= "None"
                     /\ port.product = "SiliconToaster"
                     /\ (sn = "None" \/ port.serial_number = sn)}
         IN IF Cardinality(possible_ports) >= 1
            THEN [exc |-> "none", dev |-> (CHOOSE port \in possible_ports : TRUE).device]
            ELSE [exc |-> "RuntimeError", dev |-> dev]
    ELSE [exc |-> "none", dev |-> dev]

\* Lines 10-31 of __init__: the device to open, or the exception raised
find_device(dev, sn, comports) ==
    IF dev /= "None" /\ sn /= "None" THEN [exc |-> "ValueError", dev |-> dev]
    ELSE IF dev = "None"
    THEN LET possible_ports ==
                 {port \in comports :
                     /\ port.product /= "None"
                     /\ port.product = "SiliconToaster"
                     /\ (sn = "None" \/ port.serial_number = sn)}
         IN IF Cardinality(possible_ports) > 1
            THEN [exc |-> "RuntimeError", dev |-> dev]
            ELSE IF Cardinality(possible_ports) = 1
            THEN [exc |-> "none", dev |-> (CHOOSE port \in possible_ports : TRUE).device]
            ELSE [exc |-> "RuntimeError", dev |-> dev]
    ELSE [exc |-> "none", dev |-> dev]

\* SiliconToaster(dev, sn).  When __init__ raises, the half-built object is
\* still finalized later: "unopened" has no self.ser, "broken" has one.
SiliconToaster_init ==
    /\ phase = "none"
    /\ Idle
    /\ \E dev \in Devs, sn \in Sns, comports \in SUBSET PortUniverse,
          openfails \in BOOLEAN, m \in Calls(Src(170, NoMore)) :
          LET found == find_device(dev, sn, comports)
              m1 == set_adc_control_on_off(m, TRUE)
          IN /\ op' = [name |-> "__init__", args |-> <<dev, sn>>]
             /\ listed' = IF dev = "None" THEN comports
                          ELSE NoPorts
             /\ UNCHANGED <<wire, sharing>>
             /\ IF found.exc /= "none"
                THEN /\ phase' = "unopened"
                     /\ ser' = NoSer
                     /\ attrs' = NoAttrs
                     /\ result' = [kind |-> found.exc, value |-> NoValue]
                     /\ io' = <<>>
                ELSE IF openfails
                THEN /\ phase' = "unopened"
                     /\ ser' = NoSer
                     /\ attrs' = NoAttrs
                     /\ result' = [kind |-> "SerialException", value |-> NoValue]
                     /\ io' = <<>>
                ELSE /\ ser' = [port |-> found.dev, is_open |-> TRUE]
                     /\ attrs' = InitAttrs
                     /\ result' = Outcome(m1)
                     /\ io' = m1.io
                     /\ phase' = IF m1.exc = "none" THEN "live"
                                 ELSE IF m1.exc = "hang" THEN "hung"
                                 ELSE "broken"

\* Mutant: the finalizer sends on_off(True)
SiliconToaster_del_on ==
    /\ phase \in {"live", "broken", "unopened"}
    /\ Idle
    /\ \E m \in Calls(Src(1, NoMore)) :
          LET m1 == IF phase = "unopened" THEN Raise(m, "AttributeError")
                    ELSE on_off(m, TRUE)
          IN /\ op' = [name |-> "__del__", args |-> <<>>]
             /\ result' = Outcome(m1)
             /\ io' = m1.io
             /\ phase' = IF m1.exc = "hang" THEN "hung" ELSE "deleted"
             /\ UNCHANGED <<ser, attrs, listed, wire, sharing>>

\* __del__: self.on_off(False), nothing else.  No statement of the driver
\* closes self.ser.
SiliconToaster_del ==
    /\ phase \in {"live", "broken", "unopened"}
    /\ Idle
    /\ \E m \in Calls(Src(1, NoMore)) :
          LET m1 == IF phase = "unopened" THEN Raise(m, "AttributeError")
                    ELSE on_off(m, FALSE)
          IN /\ op' = [name |-> "__del__", args |-> <<>>]
             /\ result' = Outcome(m1)
             /\ io' = m1.io
             /\ phase' = IF m1.exc = "hang" THEN "hung" ELSE "deleted"
             /\ UNCHANGED <<ser, attrs, listed, wire, sharing>>

\* The caller takes the outcome of the call that ended (a value or an
\* exception) and holds the session, or what is left of it, again
Resume ==
    /\ phase \in {"live", "broken", "unopened"}
    /\ ~Idle
    /\ op' = NoOp
    /\ result' = NoResult
    /\ io' = <<>>
    /\ listed' = NoPorts
    /\ UNCHANGED <<session, wire, sharing>>

---------------------------------------------------------------------------
(* One action per public method, called on a live session *)

ReadVoltageRaw ==
    /\ Live
    /\ \E m \in Calls(Src(2, One(2))) : Finish("read_voltage_raw", <<>>, read_voltage_raw(m))

ReadVoltage ==
    /\ Live
    /\ \E m \in Calls(Src(2, One(2))) : Finish("read_voltage", <<>>, read_voltage(m))

OnOff ==
    /\ Live
    /\ \E enable \in BOOLEAN, m \in Calls(Src(1, NoMore)) :
          Finish("on_off", <<enable>>, on_off(m, enable))

SetPwmSettings ==
    /\ Live
    /\ \E period \in PwmValues, width \in PwmValues, m \in Calls(Src(3, NoMore)) :
          Finish("set_pwm_settings", <<period, width>>, set_pwm_settings(m, period, width))

SoftwareShoot ==
    /\ Live
    /\ \E duration \in Durations, m \in Calls(Src(4, NoMore)) :
          Finish("software_shoot", <<duration>>, software_shoot(m, duration))

GetTicks ==
    /\ Live
    /\ \E m \in Calls(Src(5, One(8))) : Finish("get_ticks", <<>>, get_ticks(m))

GetVoltageSetpoint ==
    /\ Live
    /\ \E m \in Calls(Src(6, One(2))) : Finish("get_voltage_setpoint", <<>>, get_voltage_setpoint(m))

SetVoltageSetpoint ==
    /\ Live
    /\ \E destination \in Voltages, m \in Calls(Src(7, NoMore)) :
          Finish("set_voltage_setpoint", <<destination>>, set_voltage_setpoint(m, destination))

GetPwmSettings ==
    /\ Live
    /\ \E m \in Calls(Src(8, Two(2, 2))) : Finish("get_pwm_settings", <<>>, get_pwm_settings(m))

GetAdcControlPid ==
    /\ Live
    /\ \E from_flash \in BOOLEAN, m \in Calls(Src(10, One(3 * 4 + 8))) :
          Finish("get_adc_control_pid", <<from_flash>>, get_adc_control_pid(m, from_flash))

SetAdcControlPid ==
    /\ Live
    /\ \E kp \in SampleFloats, ki \in SampleFloats, kd \in SampleFloats,
          control_ticks \in SampleTicks, to_flash \in BOOLEAN, m \in Calls(Src(11, NoMore)) :
          Finish("set_adc_control_pid", <<kp, ki, kd, control_ticks, to_flash>>,
                 set_adc_control_pid(m, kp, ki, kd, control_ticks, to_flash))

GetAdcControlPidEx ==
    /\ Live
    /\ \E m \in Calls(Src(13, One(5 * 4 + 8))) :
          Finish("get_adc_control_pid_ex", <<>>, get_adc_control_pid_ex(m))

SetAdcControlPidEx ==
    /\ Live
    /\ \E p_limit \in SampleFloats, i_limit \in SampleFloats, d_limit \in SampleFloats,
          output_limit \in SampleFloats, m \in Calls(Src(12, NoMore)) :
          Finish("set_adc_control_pid_ex", <<p_limit, i_limit, d_limit, output_limit>>,
                 set_adc_control_pid_ex(m, p_limit, i_limit, d_limit, output_limit))

SetAdcControlOnOff ==
    /\ Live
    /\ \E enable \in BOOLEAN, m \in Calls(Src(170, NoMore)) :
          Finish("set_adc_control_on_off", <<enable>>, set_adc_control_on_off(m, enable))

AdcControlOnOff ==
    /\ Live
    /\ \E m \in Calls(Src(171, One(1))) : Finish("adc_control_on_off", <<>>, adc_control_on_off(m))

Panic ==
    /\ Live
    /\ \E m \in Calls(Src(119, NoMore)) : Finish("panic", <<>>, panic(m))

AdcResults ==
    /\ Live
    /\ \E m \in Calls(Src(172, AdcChunks)) : Finish("adc_results", <<>>, adc_results(m))

GetLastError ==
    /\ Live
    /\ \E m \in Calls(Src(238, One(2))) : Finish("get_last_error", <<>>, get_last_error(m))

Next ==
    \/ SiliconToaster_init
    \/ SiliconToaster_del
    \/ Resume
    \/ ReadVoltageRaw
    \/ ReadVoltage
    \/ OnOff
    \/ SetPwmSettings
    \/ SoftwareShoot
    \/ GetTicks
    \/ GetVoltageSetpoint
    \/ SetVoltageSetpoint
    \/ GetPwmSettings
    \/ GetAdcControlPid
    \/ SetAdcControlPid
    \/ GetAdcControlPidEx
    \/ SetAdcControlPidEx
    \/ SetAdcControlOnOff
    \/ AdcControlOnOff
    \/ Panic
    \/ AdcResults
    \/ GetLastError

Spec == Init /\ [][Next]_vars

---------------------------------------------------------------------------
(* convert on its own: a static method, called without a session *)

\* Arguments range over -MaxValue..MaxValue, coefficients over
\* -MaxCoefficient..MaxCoefficient, in lists of at most MaxTerms
MaxValue == 3
MaxCoefficient == 2
MaxTerms == 3

CoefficientLists ==
    UNION {[1..n -> (0 - MaxCoefficient)..MaxCoefficient] : n \in 0..MaxTerms}

ConvertInit ==
    /\ phase = "none"
    /\ ser = NoSer
    /\ attrs = NoAttrs
    /\ \E value \in (0 - MaxValue)..MaxValue, calibration \in CoefficientLists :
          op = [name |-> "convert", args |-> <<value, calibration>>]
    /\ result = NoResult
    /\ io = <<>>
    /\ listed = NoPorts
    /\ rx = <<>>
    /\ device = NoDevice
    /\ last_set = <<>>
    /\ threads = NoThreads
    /\ lock = NoLock

\* SiliconToaster.convert(value, calibration), the coefficients as floats
Convert ==
    /\ op.name = "convert"
    /\ result = NoResult
    /\ LET value == op.args[1]
           calibration == [i \in 1..Len(op.args[2]) |-> float_of(op.args[2][i])]
       IN result' = [kind |-> "ok", value |-> <<convert(value, calibration)>>]
    /\ UNCHANGED <<session, op, io, listed, wire, sharing>>

ConvertNext == Convert

ConvertSpec == ConvertInit /\ [][ConvertNext]_vars

---------------------------------------------------------------------------
(* The session of one caller with the device of section 4.2 behind the    *)
(* port: the writes never fail and every frame is answered at once.        *)

\* The response payloads the device may send, of n bytes
Payloads(n) == ChunksOfLen(n)

\* The responses to opcode 172: a count N, then N samples
AdcPayloads ==
    UNION {{be_bytes(count, 4) \o samples : samples \in ChunksOfLen(2 * count)} :
              count \in 0..MaxAdcCount}

DeviceInit ==
    /\ phase = "none"
    /\ ser = NoSer
    /\ attrs = NoAttrs
    /\ op = NoOp
    /\ result = NoResult
    /\ io = <<>>
    /\ listed = NoPorts
    /\ rx = <<>>
    /\ device = NewDevice
    /\ last_set = <<>>
    /\ threads = NoThreads
    /\ lock = NoLock

\* A method called on the live session: what it leaves in the port and how
\* it leaves the device
DeviceFinish(name, args, m) ==
    /\ op' = [name |-> name, args |-> args]
    /\ result' = Outcome(m)
    /\ io' = m.io
    /\ phase' = IF m.exc = "hang" THEN "hung" ELSE phase
    /\ rx' = m.rx
    /\ device' = m.dev
    /\ last_set' = IF name = "set_pwm_settings" /\ m.exc = "none" THEN args ELSE last_set
    /\ UNCHANGED <<ser, attrs, listed, sharing>>

\* SiliconToaster(dev): lines 33-49
DeviceConstruct ==
    /\ phase = "none"
    /\ Idle
    /\ \E dev \in Devs \ {"None"} :
          LET m == set_adc_control_on_off(DeviceCall(device, rx, <<>>), TRUE)
          IN /\ op' = [name |-> "__init__", args |-> <<dev, "None">>]
             /\ ser' = [port |-> dev, is_open |-> TRUE]
             /\ attrs' = InitAttrs
             /\ result' = Outcome(m)
             /\ io' = m.io
             /\ phase' = IF m.exc = "none" THEN "live"
                         ELSE IF m.exc = "hang" THEN "hung"
                         ELSE "broken"
             /\ rx' = m.rx
             /\ device' = m.dev
             /\ UNCHANGED <<listed, last_set, sharing>>

\* __del__
DeviceDel ==
    /\ phase = "live"
    /\ Idle
    /\ LET m == on_off(DeviceCall(device, rx, <<>>), FALSE)
       IN /\ op' = [name |-> "__del__", args |-> <<>>]
          /\ result' = Outcome(m)
          /\ io' = m.io
          /\ phase' = IF m.exc = "hang" THEN "hung" ELSE "deleted"
          /\ rx' = m.rx
          /\ device' = m.dev
          /\ UNCHANGED <<ser, attrs, listed, last_set, sharing>>

DeviceReadVoltageRaw ==
    /\ Live
    /\ \E payload \in Payloads(2) :
          DeviceFinish("read_voltage_raw", <<>>,
                       read_voltage_raw(DeviceCall(device, rx, payload)))

DeviceReadVoltage ==
    /\ Live
    /\ \E payload \in Payloads(2) :
          DeviceFinish("read_voltage", <<>>, read_voltage(DeviceCall(device, rx, payload)))

DeviceOnOff ==
    /\ Live
    /\ \E enable \in BOOLEAN :
          DeviceFinish("on_off", <<enable>>, on_off(DeviceCall(device, rx, <<>>), enable))

DeviceSetPwmSettings ==
    /\ Live
    /\ \E period \in PwmValues, width \in PwmValues :
          DeviceFinish("set_pwm_settings", <<period, width>>,
                       set_pwm_settings(DeviceCall(device, rx, <<>>), period, width))

DeviceSoftwareShoot ==
    /\ Live
    /\ \E duration \in Durations :
          DeviceFinish("software_shoot", <<duration>>,
                       software_shoot(DeviceCall(device, rx, <<>>), duration))

DeviceGetTicks ==
    /\ Live
    /\ \E payload \in Payloads(8) :
          DeviceFinish("get_ticks", <<>>, get_ticks(DeviceCall(device, rx, payload)))

DeviceGetVoltageSetpoint ==
    /\ Live
    /\ \E payload \in Payloads(2) :
          DeviceFinish("get_voltage_setpoint", <<>>,
                       get_voltage_setpoint(DeviceCall(device, rx, payload)))

DeviceSetVoltageSetpoint ==
    /\ Live
    /\ \E destination \in Voltages :
          DeviceFinish("set_voltage_setpoint", <<destination>>,
                       set_voltage_setpoint(DeviceCall(device, rx, <<>>), destination))

DeviceGetPwmSettings ==
    /\ Live
    /\ DeviceFinish("get_pwm_settings", <<>>, get_pwm_settings(DeviceCall(device, rx, <<>>)))

DeviceGetAdcControlPid ==
    /\ Live
    /\ \E from_flash \in BOOLEAN, payload \in Payloads(3 * 4 + 8) :
          DeviceFinish("get_adc_control_pid", <<from_flash>>,
                       get_adc_control_pid(DeviceCall(device, rx, payload), from_flash))

DeviceSetAdcControlPid ==
    /\ Live
    /\ \E kp \in SampleFloats, ki \in SampleFloats, kd \in SampleFloats,
          control_ticks \in SampleTicks, to_flash \in BOOLEAN :
          DeviceFinish("set_adc_control_pid", <<kp, ki, kd, control_ticks, to_flash>>,
                       set_adc_control_pid(DeviceCall(device, rx, <<>>),
                                           kp, ki, kd, control_ticks, to_flash))

DeviceGetAdcControlPidEx ==
    /\ Live
    /\ \E payload \in Payloads(5 * 4 + 8) :
          DeviceFinish("get_adc_control_pid_ex", <<>>,
                       get_adc_control_pid_ex(DeviceCall(device, rx, payload)))

DeviceSetAdcControlPidEx ==
    /\ Live
    /\ \E p_limit \in SampleFloats, i_limit \in SampleFloats, d_limit \in SampleFloats,
          output_limit \in SampleFloats :
          DeviceFinish("set_adc_control_pid_ex", <<p_limit, i_limit, d_limit, output_limit>>,
                       set_adc_control_pid_ex(DeviceCall(device, rx, <<>>),
                                              p_limit, i_limit, d_limit, output_limit))

DeviceSetAdcControlOnOff ==
    /\ Live
    /\ \E enable \in BOOLEAN :
          DeviceFinish("set_adc_control_on_off", <<enable>>,
                       set_adc_control_on_off(DeviceCall(device, rx, <<>>), enable))

DeviceAdcControlOnOff ==
    /\ Live
    /\ \E payload \in Payloads(1) :
          DeviceFinish("adc_control_on_off", <<>>,
                       adc_control_on_off(DeviceCall(device, rx, payload)))

DevicePanic ==
    /\ Live
    /\ DeviceFinish("panic", <<>>, panic(DeviceCall(device, rx, <<>>)))

DeviceAdcResults ==
    /\ Live
    /\ \E payload \in AdcPayloads :
          DeviceFinish("adc_results", <<>>, adc_results(DeviceCall(device, rx, payload)))

DeviceGetLastError ==
    /\ Live
    /\ \E payload \in Payloads(2) :
          DeviceFinish("get_last_error", <<>>, get_last_error(DeviceCall(device, rx, payload)))

DeviceNext ==
    \/ DeviceConstruct
    \/ DeviceDel
    \/ Resume
    \/ DeviceReadVoltageRaw
    \/ DeviceReadVoltage
    \/ DeviceOnOff
    \/ DeviceSetPwmSettings
    \/ DeviceSoftwareShoot
    \/ DeviceGetTicks
    \/ DeviceGetVoltageSetpoint
    \/ DeviceSetVoltageSetpoint
    \/ DeviceGetPwmSettings
    \/ DeviceGetAdcControlPid
    \/ DeviceSetAdcControlPid
    \/ DeviceGetAdcControlPidEx
    \/ DeviceSetAdcControlPidEx
    \/ DeviceSetAdcControlOnOff
    \/ DeviceAdcControlOnOff
    \/ DevicePanic
    \/ DeviceAdcResults
    \/ DeviceGetLastError

DeviceSpec == DeviceInit /\ [][DeviceNext]_vars

---------------------------------------------------------------------------
(* Two threads that call read_voltage_raw or get_ticks on one session, the *)
(* device of section 4.2 behind the port.  A method is no longer one step:  *)
(* each of its statements is, and the statements of the two calls           *)
(* interleave.  The port has no timeout, so a read waits for its bytes.     *)
(* The callers either use no mutual exclusion (lock = NoMutex) or take a    *)
(* mutex around each call.                                                  *)

Tids == {"t1", "t2"}

NoMutex == "none"

SharedMethods == {"read_voltage_raw", "get_ticks"}

\* Mutant: the measurement is read as 1 byte
read_voltage_raw_step_one_byte(m, pc) ==
    CASE pc = "write" -> ser_write(m, <<2>>)
      [] pc = "ack" -> py_assert_read(m, 1, <<2>>)
      [] pc = "payload" -> LET m3 == ser_read(m, 1)
                           IN Return(m3, <<from_bytes(m3.got)>>)

\* The statement of read_voltage_raw at pc: lines 72, 73, 74
read_voltage_raw_step(m, pc) ==
    CASE pc = "write" -> ser_write(m, <<2>>)
      [] pc = "ack" -> py_assert_read(m, 1, <<2>>)
      [] pc = "payload" -> LET m3 == ser_read(m, 2)
                           IN Return(m3, <<from_bytes(m3.got)>>)

\* int.from_bytes(bs, "big") for a value that may need all of 64 bits: the
\* integer as [neg, bytes], sign and big-endian magnitude without leading
\* zeros, as for the control_ticks arguments
RECURSIVE significant(_)
significant(bs) ==
    IF bs = <<>> THEN bs
    ELSE IF Head(bs) = 0 THEN significant(Tail(bs))
    ELSE bs

from_bytes_wide(bs) == [neg |-> FALSE, bytes |-> significant(bs)]

\* The statement of get_ticks at pc: lines 138, 139, 140
get_ticks_step(m, pc) ==
    CASE pc = "write" -> ser_write(m, <<5>>)
      [] pc = "ack" -> py_assert_read(m, 1, <<5>>)
      [] pc = "payload" -> LET m3 == ser_read(m, 8)
                           IN Return(m3, <<from_bytes_wide(m3.got)>>)

method_step(method, m, pc) ==
    IF method = "read_voltage_raw" THEN read_voltage_raw_step(m, pc)
    ELSE get_ticks_step(m, pc)

\* The bytes the read at pc asks for
read_size(method, pc) ==
    IF pc = "ack" THEN 1
    ELSE IF method = "read_voltage_raw" THEN 2
    ELSE 8

\* What the device answers each method with; a measurement may hold a byte
\* equal to an opcode
SharedPayloads(method) ==
    IF method = "read_voltage_raw" THEN Payloads(2) \cup {<<5, 1>>}
    ELSE Payloads(8)

\* The call record of a thread, on the port as it is now
Attach(m) == [m EXCEPT !.rx = rx, !.dev = device]

Detach(m) == [m EXCEPT !.rx = <<>>, !.dev = NoDevice]

ThreadInit ==
    /\ phase = "live"
    /\ \E dev \in Devs \ {"None"} : ser = [port |-> dev, is_open |-> TRUE]
    /\ attrs = InitAttrs
    /\ op = NoOp
    /\ result = NoResult
    /\ io = <<>>
    /\ listed = NoPorts
    /\ rx = <<>>
    /\ device = NewDevice
    /\ last_set = <<>>
    /\ \E calls \in [Tids -> SharedMethods] :
          \E payloads \in [Tids -> Payloads(2) \cup {<<5, 1>>} \cup Payloads(8)] :
             /\ \A t \in Tids : payloads[t] \in SharedPayloads(calls[t])
             /\ threads = [t \in Tids |->
                              [method |-> calls[t], pc |-> "start",
                               m |-> Detach(DeviceCall(NoDevice, <<>>, payloads[t]))]]
    /\ lock \in {NoMutex, NoLock}

\* The caller starts its call, taking the mutex first when the callers use
\* one
Enter ==
    \E t \in Tids :
        /\ threads[t].pc = "start"
        /\ lock \in {NoMutex, NoLock}
        /\ threads' = [threads EXCEPT ![t].pc = "write"]
        /\ lock' = IF lock = NoMutex THEN NoMutex ELSE t
        /\ UNCHANGED <<session, op, result, io, listed, wire>>

\* self.ser.write(opcode)
Write ==
    \E t \in Tids :
        /\ threads[t].pc = "write"
        /\ LET m == method_step(threads[t].method, Attach(threads[t].m), "write")
           IN /\ threads' = [threads EXCEPT ![t].pc = "ack", ![t].m = Detach(m)]
              /\ rx' = m.rx
              /\ device' = m.dev
        /\ UNCHANGED <<session, op, result, io, listed, last_set, lock>>

\* assert self.ser.read(1) == opcode
ReadAck ==
    \E t \in Tids :
        /\ threads[t].pc = "ack"
        /\ Len(rx) >= read_size(threads[t].method, "ack")
        /\ LET m == method_step(threads[t].method, Attach(threads[t].m), "ack")
           IN /\ threads' = [threads EXCEPT
                                ![t].pc = IF m.exc = "none" THEN "payload" ELSE "done",
                                ![t].m = Detach(m)]
              /\ rx' = m.rx
              /\ device' = m.dev
        /\ UNCHANGED <<session, op, result, io, listed, last_set, lock>>

\* return int.from_bytes(self.ser.read(n), "big")
ReadPayload ==
    \E t \in Tids :
        /\ threads[t].pc = "payload"
        /\ Len(rx) >= read_size(threads[t].method, "payload")
        /\ LET m == method_step(threads[t].method, Attach(threads[t].m), "payload")
           IN /\ threads' = [threads EXCEPT ![t].pc = "done", ![t].m = Detach(m)]
              /\ rx' = m.rx
              /\ device' = m.dev
        /\ UNCHANGED <<session, op, result, io, listed, last_set, lock>>

\* The caller whose call ended, with a value or an exception, gives the
\* mutex back
Leave ==
    \E t \in Tids :
        /\ threads[t].pc = "done"
        /\ lock = t
        /\ threads' = [threads EXCEPT ![t].pc = "left"]
        /\ lock' = NoLock
        /\ UNCHANGED <<session, op, result, io, listed, wire>>

ThreadNext ==
    \/ Enter
    \/ Write
    \/ ReadAck
    \/ ReadPayload
    \/ Leave

ThreadSpec == ThreadInit /\ [][ThreadNext]_vars

---------------------------------------------------------------------------
(* Properties *)

\* A call of ser.write, whether the port took the frame or raised
IsWrite(e) == e.t \in {"write", "write_failed"}

\* A read that returned (one that blocks for ever never returns)
IsRead(e) == e.t = "read"

\* The session was constructed far enough to own a transport
HasTransport == ser.port /= "None"

\* The exceptions raised by the checks and the encoding of the arguments,
\* before any transport call
LocalErrors == {"ValueError", "OverflowError", "struct.error(pack)"}

PublicMethods ==
    {"read_voltage_raw", "read_voltage", "on_off", "set_pwm_settings",
     "software_shoot", "get_ticks", "get_voltage_setpoint", "set_voltage_setpoint",
     "get_pwm_settings", "get_adc_control_pid", "set_adc_control_pid",
     "get_adc_control_pid_ex", "set_adc_control_pid_ex", "set_adc_control_on_off",
     "adc_control_on_off", "panic", "adc_results", "get_last_error"}

\* The acknowledgment read returned something other than the opcode sent
AckMismatch ==
    /\ Len(io) >= 2
    /\ io[1].t = "write"
    /\ IsRead(io[2])
    /\ io[2].data /= <<io[1].data[1]>>

\* C1: set_pwm_settings(period, width) raises ValueError without any
\* transport call when period < 1, width < 0 or width >= period; when
\* 1 <= period <= 65535 and 0 <= width < period it is accepted and its first
\* transport call is the write of a 5-byte frame of opcode 3.
C1_PwmValidation ==
    op.name = "set_pwm_settings" =>
        LET period == op.args[1]
            width == op.args[2]
        IN /\ (period < 1 \/ width < 0 \/ width >= period)
                  => (result.kind = "ValueError" /\ io = <<>>)
           /\ (1 <= period /\ period <= 65535 /\ 0 <= width /\ width < period)
                  => /\ result.kind \notin LocalErrors
                     /\ io /= <<>>
                     /\ IsWrite(io[1])
                     /\ Len(io[1].data) = 5
                     /\ io[1].data[1] = 3

C1_Witness ==
    /\ op.name = "set_pwm_settings"
    /\ op.args = <<10, 9>>
    /\ result.kind = "ok"
    /\ io[1].t = "write"

\* C2: when the finalizer runs on a session that owns a transport, the
\* power-off never fails out of it: it ends normally whatever the port does.
C2_TeardownNeverFails ==
    (op.name = "__del__" /\ HasTransport) => result.kind = "ok"

\* C3: the finalizer of a session that owns a transport calls ser.write with
\* the frame <<1, 0>> as its first transport call, while the transport is
\* still open, and writes nothing else; once the session is deleted no other
\* method has run after the finalizer.
C3_PowerOffOnTeardown ==
    /\ (op.name = "__del__" /\ HasTransport)
           => /\ io /= <<>>
              /\ IsWrite(io[1])
              /\ io[1].data = <<1, 0>>
              /\ \A i \in 2..Len(io) : ~IsWrite(io[i])
              /\ ser.is_open
    /\ phase = "deleted" => op.name = "__del__"

C3_Witness ==
    /\ phase = "deleted"
    /\ HasTransport
    /\ io[1] = [t |-> "write", n |-> 2, data |-> <<1, 0>>]

\* C4: once the finalizer of a session that owns a transport has ended, the
\* transport is closed.
C4_ReleasedAtTeardown ==
    (phase = "deleted" /\ HasTransport) => ~ser.is_open

\* C5: a call whose acknowledgment read differs from the opcode sent (an
\* empty read included) fails with an error that reports the expected byte
\* and what was received.
C5_MismatchReported ==
    AckMismatch =>
        /\ result.kind /= "ok"
        /\ result.value = <<io[1].data[1], io[2].data>>

\* C6: a call one of whose reads returned zero bytes (of at least one asked
\* for) fails: it returns no value.
C6_EmptyReadFails ==
    (\E i \in 1..Len(io) : IsRead(io[i]) /\ io[i].n > 0 /\ io[i].data = <<>>)
        => result.kind /= "ok"

\* C7: a call one of whose payload reads returned at least one byte but
\* fewer than it asked for fails: it returns no value.
C7_ShortReadFails ==
    (\E i \in 3..Len(io) :
        IsRead(io[i]) /\ Len(io[i].data) > 0 /\ Len(io[i].data) < io[i].n)
        => result.kind /= "ok"

\* C8: set_voltage_setpoint(v) with v outside [0, 1000] fails on the
\* arguments alone, without any transport call.
C8_SetpointRange ==
    (op.name = "set_voltage_setpoint" /\ (op.args[1] < 0 \/ op.args[1] > 1000))
        => (result.kind \in LocalErrors /\ io = <<>>)

\* C9: software_shoot(duration) raises ValueError without any transport call
\* when duration is outside 0..65535; otherwise its first transport call is
\* the write of <<4, duration div 256, duration mod 256>>.
C9_ShootValidation ==
    op.name = "software_shoot" =>
        LET duration == op.args[1]
        IN IF duration < 0 \/ duration > 65535
           THEN result.kind = "ValueError" /\ io = <<>>
           ELSE /\ result.kind \notin LocalErrors
                /\ io /= <<>>
                /\ IsWrite(io[1])
                /\ io[1].data = <<4, duration \div 256, duration % 256>>

C9_Witness ==
    /\ op.name = "software_shoot"
    /\ op.args = <<65535>>
    /\ io[1] = [t |-> "write", n |-> 3, data |-> <<4, 255, 255>>]

\* C10: a public method whose arguments are rejected locally makes no
\* transport call; any other call of a public method makes exactly one
\* ser.write, as its first transport call, and everything after it is a read,
\* also when the call fails.
C10_OneWriteNoRetry ==
    op.name \in PublicMethods =>
        IF result.kind \in LocalErrors THEN io = <<>>
        ELSE /\ io /= <<>>
             /\ IsWrite(io[1])
             /\ \A i \in 2..Len(io) : ~IsWrite(io[i])

C10_Witness ==
    /\ op.name = "read_voltage"
    /\ result.kind = "AssertionError"
    /\ Len(io) = 2
    /\ io[1].t = "write"

\* C11: a construction that opened a transport makes the write of the frame
\* <<170, 1>> its first transport call; it returns a session only after a
\* read of 1 byte returned <<170>>, and when that read returns anything else
\* (nothing included) or never returns, the constructor does not return and
\* the session never becomes usable.
C11_ConstructionSetsAdcControl ==
    /\ (op.name = "__init__" /\ HasTransport)
           => /\ io /= <<>>
              /\ IsWrite(io[1])
              /\ io[1].data = <<170, 1>>
              /\ \A i \in 2..Len(io) : ~IsWrite(io[i])
              /\ result.kind = "ok"
                    <=> (Len(io) = 2 /\ io[2] = [t |-> "read", n |-> 1, data |-> <<170>>])
              /\ phase = "live" <=> result.kind = "ok"
    /\ (op.name = "__init__" /\ ~HasTransport) => (phase /= "live" /\ result.kind /= "ok")

C11_Witness ==
    /\ op.name = "__init__"
    /\ phase = "live"
    /\ result.kind = "ok"
    /\ io = << [t |-> "write", n |-> 2, data |-> <<170, 1>>],
               [t |-> "read", n |-> 1, data |-> <<170>>] >>

\* C12: when the count adc_results decodes exceeds 10000, the call fails
\* without asking the port for the samples (the count is its last read), and
\* no read of adc_results asks for more than 2 * 10000 bytes.
C12_AdcCountBounded ==
    op.name = "adc_results" =>
        /\ (/\ Len(io) >= 3
            /\ IsRead(io[3])
            /\ Len(io[3].data) = 4
            /\ from_bytes(io[3].data) > 10000)
               => (result.kind \notin {"ok", "hang"} /\ Len(io) = 3)
        /\ \A i \in 1..Len(io) : io[i].t \in {"read", "read_blocked"} => io[i].n <= 2 * 10000

\* C13: every set_pwm_settings(period, width) with 1 <= period <= 65535 and
\* 0 <= width < period calls ser.write, and whenever set_pwm_settings calls
\* ser.write it does so once, with the 5 bytes 3, period div 256,
\* period mod 256, width div 256, width mod 256.
C13_PwmFrame ==
    op.name = "set_pwm_settings" =>
        LET period == op.args[1]
            width == op.args[2]
        IN /\ (1 <= period /\ period <= 65535 /\ 0 <= width /\ width < period)
                  => io /= <<>>
           /\ io /= <<>>
                  => /\ IsWrite(io[1])
                     /\ io[1].n = 5
                     /\ io[1].data = <<3, period \div 256, period % 256,
                                          width \div 256, width % 256>>
                     /\ \A i \in 2..Len(io) : ~IsWrite(io[i])

C13_Witness ==
    /\ op.name = "set_pwm_settings"
    /\ op.args = <<65535, 258>>
    /\ result.kind = "ok"
    /\ io[1] = [t |-> "write", n |-> 5, data |-> <<3, 255, 255, 1, 2>>]

\* The frame of a call as a function of the method and its arguments alone
\* (the opcode, then the request payload of the table, from the coefficients
\* as written in __init__)
FrameOf(name, args) ==
    CASE name \in {"read_voltage_raw", "read_voltage"} -> <<2>>
      [] name = "on_off" -> <<1>> \o pack_bool(args[1])
      [] name = "set_pwm_settings" -> <<3>> \o be_bytes(args[1], 2) \o be_bytes(args[2], 2)
      [] name = "software_shoot" -> <<4>> \o be_bytes(args[1], 2)
      [] name = "get_ticks" -> <<5>>
      [] name = "get_voltage_setpoint" -> <<6>>
      [] name = "set_voltage_setpoint" ->
            <<7>> \o be_bytes(int_round(convert(args[1], calibration_v_to_raw)), 2)
      [] name = "get_pwm_settings" -> <<8>>
      [] name = "get_adc_control_pid" -> <<10>> \o pack_bool(args[1])
      [] name = "set_adc_control_pid" ->
            <<11>> \o pack_bool(args[5]) \o pack_floats(<<args[1], args[2], args[3]>>)
                  \o pack_Q(args[4])
      [] name = "set_adc_control_pid_ex" -> <<12>> \o pack_floats(args)
      [] name = "get_adc_control_pid_ex" -> <<13>>
      [] name = "set_adc_control_on_off" -> <<170>> \o pack_bool(args[1])
      [] name = "adc_control_on_off" -> <<171>>
      [] name = "adc_results" -> <<172>>
      [] name = "get_last_error" -> <<238>>
      [] name = "panic" -> <<119>>

\* C15: whenever the session owns a transport, after any sequence of calls,
\* its two coefficient lists are the lists __init__ wrote; and the frame a
\* call of a public method writes is FrameOf its name and arguments, whatever
\* was called before.
C15_NoMutableState ==
    /\ HasTransport
           => /\ attrs.calibration_raw_to_v = calibration_raw_to_v
              /\ attrs.calibration_v_to_raw = calibration_v_to_raw
    /\ (op.name \in PublicMethods /\ io /= <<>>)
           => io[1].data = FrameOf(op.name, op.args)

C15_Witness ==
    /\ op.name = "set_voltage_setpoint"
    /\ op.args = <<500>>
    /\ result.kind = "ok"
    /\ io[1].data = <<7, 3, 30>>
    /\ attrs.calibration_v_to_raw = calibration_v_to_raw

\* The length of the request payload of each opcode, from the table
RequestLen(opcode) ==
    CASE opcode \in {2, 5, 6, 8, 13, 171, 172, 238, 119} -> 0
      [] opcode \in {1, 10, 170} -> 1
      [] opcode \in {4, 7} -> 2
      [] opcode = 3 -> 4
      [] opcode = 12 -> 16
      [] opcode = 11 -> 21

\* An argument list that does not fit the fields of the frame
Unencodable ==
    \/ /\ op.name = "set_pwm_settings"
       /\ (op.args[1] > 65535 \/ op.args[2] > 65535)
    \/ /\ op.name = "software_shoot"
       /\ (op.args[1] < 0 \/ op.args[1] > 65535)
    \/ /\ op.name = "set_voltage_setpoint"
       /\ ~fits_u16(int_round(convert(op.args[1], calibration_v_to_raw)))
    \/ /\ op.name = "set_adc_control_pid"
       /\ \/ op.args[4].neg
          \/ Len(op.args[4].bytes) > 8
          \/ \E i \in 1..3 : ~op.args[i].fits
    \/ /\ op.name = "set_adc_control_pid_ex"
       /\ \E i \in 1..4 : ~op.args[i].fits

\* C19: every ser.write of the driver passes a whole frame, an opcode of the
\* table followed by as many bytes as its request payload has; and a call
\* whose arguments do not fit their fields fails without any transport call.
C19_NoPartialFrame ==
    /\ \A i \in 1..Len(io) :
          IsWrite(io[i])
              => /\ io[i].data /= <<>>
                 /\ io[i].data[1] \in Opcodes
                 /\ Len(io[i].data) = 1 + RequestLen(io[i].data[1])
    /\ Unencodable => (result.kind \in LocalErrors /\ io = <<>>)

C19_Witness ==
    /\ op.name = "set_adc_control_pid"
    /\ op.args[4] = [neg |-> FALSE, bytes |-> <<1>> \o Zeros(8)]
    /\ result.kind = "struct.error(pack)"
    /\ io = <<>>

\* The listed ports a construction with serial number sn may use
Matching(sn) ==
    {port \in listed :
        port.product = "SiliconToaster" /\ (sn = "None" \/ port.serial_number = sn)}

\* C20: a construction given both dev and sn raises ValueError; one given no
\* dev raises RuntimeError when the listed ports matching it are none or
\* several; in these cases no port is opened and no transport call is made.
\* A construction given no dev with exactly one matching port opens no
\* other port than that one, and one given dev opens no other port than dev.
C20_UnambiguousDevice ==
    op.name = "__init__" =>
        LET dev == op.args[1]
            sn == op.args[2]
        IN /\ (dev /= "None" /\ sn /= "None")
                  => (result.kind = "ValueError" /\ ~HasTransport /\ io = <<>>)
           /\ (dev = "None" /\ Cardinality(Matching(sn)) /= 1)
                  => (result.kind = "RuntimeError" /\ ~HasTransport /\ io = <<>>)
           /\ (dev = "None" /\ Cardinality(Matching(sn)) = 1)
                  => /\ result.kind \notin {"ValueError", "RuntimeError"}
                     /\ HasTransport => ser.port \in {port.device : port \in Matching(sn)}
           /\ (dev /= "None" /\ HasTransport) => ser.port = dev
           /\ ~HasTransport => io = <<>>

C20_Witness ==
    /\ op.name = "__init__"
    /\ op.args = <<"None", "SN2">>
    /\ Cardinality(listed) = 4
    /\ ser = [port |-> "/dev/ttyACM1", is_open |-> TRUE]
    /\ phase = "live"

RECURSIVE Power(_, _)
Power(x, e) == IF e = 0 THEN 1 ELSE x * Power(x, e - 1)

\* c[i] * x^(n-i) + ... + c[n] * x^0 for a list c of n integers
RECURSIVE SumFrom(_, _, _)
SumFrom(c, x, i) ==
    IF i > Len(c) THEN 0
    ELSE c[i] * Power(x, Len(c) - i) + SumFrom(c, x, i + 1)

\* C16: convert(x, c) is the value at x of the polynomial whose coefficients
\* are c, highest degree first: the sum of c[i] * x^(n-i) for i in 1..n, n the
\* length of c; convert(3, [1, 0, 0]) is 9 and convert(x, []) is 0.
C16_ConvertPolynomial ==
    (op.name = "convert" /\ result /= NoResult) =>
        LET x == op.args[1]
            c == op.args[2]
        IN /\ result.kind = "ok"
           /\ result.value = <<float_of(SumFrom(c, x, 1))>>
           /\ (x = 3 /\ c = <<1, 0, 0>>) => result.value = <<float_of(9)>>
           /\ c = <<>> => result.value = <<float_of(0)>>

C16_Witness ==
    /\ op.name = "convert"
    /\ op.args = <<3, <<1, 0, 0>>>>
    /\ result = [kind |-> "ok", value |-> <<float_of(9)>>]

\* C14: with the device behind the port, every set_pwm_settings(p, w) with
\* 1 <= p <= 65535 and 0 <= w < p is accepted, and a get_pwm_settings() made
\* after an accepted set_pwm_settings(p, w), with no other one accepted in
\* between, returns <<p, w>>.
C14_PwmRoundTrip ==
    /\ (/\ op.name = "set_pwm_settings"
        /\ 1 <= op.args[1] /\ op.args[1] <= 65535
        /\ 0 <= op.args[2] /\ op.args[2] < op.args[1])
           => (result.kind = "ok" /\ last_set = op.args)
    /\ (op.name = "get_pwm_settings" /\ last_set /= <<>>)
           => (result.kind = "ok" /\ result.value = last_set)

C14_Witness ==
    /\ op.name = "get_pwm_settings"
    /\ last_set = <<65535, 258>>
    /\ result = [kind |-> "ok", value |-> <<65535, 258>>]

\* The length of the response payload of each opcode, from the table; the
\* samples of opcode 172 come on top of its count
ResponseLen(opcode) ==
    CASE opcode \in {1, 3, 4, 7, 11, 12, 170, 119} -> 0
      [] opcode = 171 -> 1
      [] opcode \in {2, 6, 238} -> 2
      [] opcode \in {8, 172} -> 4
      [] opcode = 5 -> 8
      [] opcode = 10 -> 20
      [] opcode = 13 -> 28

\* The bytes the reads of the call took from the port
RECURSIVE Consumed(_)
Consumed(log) ==
    IF log = <<>> THEN 0
    ELSE (IF IsRead(Head(log)) THEN Len(Head(log).data) ELSE 0) + Consumed(Tail(log))

\* C18: with the device behind the port no call blocks; after a call that
\* returned normally, and whenever the caller is idle, the port holds no
\* unread byte; a call that wrote a frame and returned normally has taken
\* 1 + the response length of its opcode from the port, plus 2 * N for
\* opcode 172 with count N.
C18_FramingAligned ==
    /\ result.kind /= "hang"
    /\ (result.kind = "ok" \/ Idle) => rx = <<>>
    /\ (result.kind = "ok" /\ io /= <<>>)
           => Consumed(io) = 1 + ResponseLen(io[1].data[1])
                               + (IF io[1].data[1] = 172 THEN 2 * from_bytes(io[3].data)
                                  ELSE 0)

C18_Witness ==
    /\ op.name = "adc_results"
    /\ result.kind = "ok"
    /\ Len(result.value) = MaxAdcCount
    /\ Consumed(io) = 1 + 4 + 2 * MaxAdcCount
    /\ rx = <<>>

\* What the call of thread t returns when it decodes the device's answer to
\* its own frame
OwnValue(t) ==
    IF threads[t].method = "read_voltage_raw" THEN <<from_bytes(threads[t].m.payload)>>
    ELSE <<from_bytes_wide(threads[t].m.payload)>>

Ended(t) == threads[t].pc \in {"done", "left"}

\* The reads of thread t so far returned the device's answer to its own
\* frame: the echo of its opcode, then its payload
OwnBytes(t) ==
    LET log == threads[t].m.io
    IN /\ Len(log) >= 2 => log[2].data = <<log[1].data[1]>>
       /\ Len(log) >= 3 => log[3].data = threads[t].m.payload

\* C17: when the two callers take a mutex around their calls, every read of
\* a call returns bytes of the device's answer to that call's frame, and
\* every call that ended returned the value of its own answer.  (Without
\* the mutex, C17_Witness is reachable: one call fails on its acknowledgment
\* and the other returns a value that is not its answer, the device having
\* answered both frames as the table says.)
C17_ExclusionPreventsCrossRead ==
    lock /= NoMutex =>
        \A t \in Tids :
            /\ OwnBytes(t)
            /\ Ended(t) => (threads[t].m.exc = "none" /\ threads[t].m.ret = OwnValue(t))

C17_Witness ==
    /\ lock = NoMutex
    /\ \E t \in Tids, u \in Tids :
          /\ t /= u
          /\ Ended(t)
          /\ threads[t].m.exc = "AssertionError"
          /\ Ended(u)
          /\ threads[u].m.exc = "none"
          /\ threads[u].m.ret /= OwnValue(u)
          /\ ~OwnBytes(u)

====
